---------------------------- MODULE Spec2Model ----------------------------
(***************************************************************************)
(* A model of src/index.js: a script that loads the mempool, filters it    *)
(* with validateTransaction, accumulates the fees, builds the coinbase     *)
(* transaction and the block header, mines the header and writes the       *)
(* report to output.txt.                                                   *)
(*                                                                         *)
(* JavaScript values are tagged records (field k is the type tag).  A      *)
(* string is a sequence of one-character strings, so that startsWith, the  *)
(* hex decoding of Buffer.from(s, "hex") and the string-to-number          *)
(* coercion of the relational operators are computed character by         *)
(* character.  A property that is missing from an object is missing from   *)
(* the domain of the object's field map.                                   *)
(***************************************************************************)
EXTENDS Integers, Sequences, FiniteSets, TLC

VARIABLES
    pc,                   \* position of the script / of the function call
    transactions,         \* line 6: the parsed mempool, in load order
    validTransactions,    \* line 19
    idx,                  \* position of the forEach that is running
    totalFees,            \* line 32
    coinbaseTransaction,  \* line 61
    blockHeader,          \* line 92
    blockHash,            \* line 105
    attempts,             \* the (nonce, hash) pairs the do/while computed
    digests,              \* the double SHA-256 of every buffer hashed so far
    outputFile,           \* the lines of output.txt
    arg,                  \* argument of the function under call
    ret                   \* outcome of the function under call

vars == <<pc, transactions, validTransactions, idx, totalFees,
          coinbaseTransaction, blockHeader, blockHash, attempts, digests,
          outputFile, arg, ret>>

-----------------------------------------------------------------------------
(* Bounds of the model *)

MaxValue == 2
MaxTx == 3
MaxNonce == 10
MaxLeaves == 4
MaxCallStack == 8

-----------------------------------------------------------------------------
(* JavaScript values *)

Undefined == [k |-> "undefined"]
Null == [k |-> "null"]
Num(n) == [k |-> "number", n |-> n]
Str(s) == [k |-> "string", s |-> s]
Arr(a) == [k |-> "array", a |-> a]
Obj(f) == [k |-> "object", f |-> f]

\* Outcomes of a call: a returned value or a thrown error.
Return(v) == [k |-> "return", v |-> v]
Throw(e) == [k |-> "throw", e |-> e]

\* ToBoolean, as used by the || operator.
Truthy(v) ==
    CASE v.k = "undefined" -> FALSE
      [] v.k = "null" -> FALSE
      [] v.k = "number" -> v.n # 0
      [] v.k = "string" -> Len(v.s) > 0
      [] v.k = "array" -> TRUE
      [] v.k = "object" -> TRUE

\* a || b
Or(a, b) == IF Truthy(a) THEN a ELSE b

\* Whether reading a property of v throws (v is undefined or null).
NoProps(v) == v.k \in {"undefined", "null"}

\* v.name for a v that is not undefined or null: a missing property, and any
\* data property of a number, string or array, reads as undefined.
Get(v, name) ==
    IF v.k = "object" /\ name \in DOMAIN v.f THEN v.f[name] ELSE Undefined

\* The members a for...of visits: the elements of an array, the characters of
\* a string.  Nothing else in the model is iterable.
Iterable(v) == v.k \in {"array", "string"}
Items(v) ==
    IF v.k = "array" THEN v.a ELSE [j \in 1..Len(v.s) |-> Str(<<v.s[j]>>)]

-----------------------------------------------------------------------------
(* Characters and the string-to-number coercion *)

DecDigits == <<"0", "1", "2", "3", "4", "5", "6", "7", "8", "9">>
HexDigits == DecDigits \o <<"a", "b", "c", "d", "e", "f">>

IsDec(c) == \E j \in 1..Len(DecDigits) : DecDigits[j] = c
HexVal(c) == (CHOOSE j \in 1..Len(HexDigits) : HexDigits[j] = c) - 1

\* A number too large for a 32-bit integer is kept as its decimal
\* digits, most significant first and without leading zeros (<<>> is 0);
\* nan and inf are the two special values of a JavaScript number.
NaN == [nan |-> TRUE, inf |-> FALSE, dig |-> <<>>]
Infinity == [nan |-> FALSE, inf |-> TRUE, dig |-> <<>>]
Finite(d) == [nan |-> FALSE, inf |-> FALSE, dig |-> d]

RECURSIVE Strip(_)
Strip(d) == IF d # <<>> /\ d[1] = 0 THEN Strip(Tail(d)) ELSE d

DecVals(s) == [j \in 1..Len(s) |-> HexVal(s[j])]
Zeros(n) == [j \in 1..n |-> 0]

\* The value of at most three decimal digits.
RECURSIVE SmallNat(_)
SmallNat(d) == IF d = <<>> THEN 0 ELSE 10 * SmallNat(SubSeq(d, 1, Len(d) - 1)) + d[Len(d)]

\* mantissa * 10^exponent, both given as decimal digits.  A double holds
\* nothing above 1.8e308.
Scaled(m, x) ==
    IF Strip(m) = <<>> THEN Finite(<<>>)
    ELSE IF Len(Strip(x)) > 3 \/ Len(Strip(m)) + SmallNat(Strip(x)) > 309 THEN Infinity
    ELSE Finite(Strip(m) \o Zeros(SmallNat(Strip(x))))

\* The first position from j on that holds no decimal digit (Len(s) + 1 when
\* there is none).
RECURSIVE ScanDec(_, _)
ScanDec(s, j) == IF j > Len(s) \/ ~IsDec(s[j]) THEN j ELSE ScanDec(s, j + 1)

\* ToNumber of a string made of the characters 0-9 and a-f (every string the
\* model coerces): the empty string is 0, decimal digits are a decimal
\* literal, digits "e" digits is a literal with an exponent, and anything
\* else is no numeric literal.
StringToNumber(s) ==
    LET p == ScanDec(s, 1)
    IN  IF s = <<>> THEN Finite(<<>>)
        ELSE IF p > Len(s) THEN Finite(Strip(DecVals(s)))
        ELSE IF s[p] = "e" /\ p >= 2 /\ p < Len(s) /\ ScanDec(s, p + 1) > Len(s)
        THEN Scaled(DecVals(SubSeq(s, 1, p - 1)), DecVals(SubSeq(s, p + 1, Len(s))))
        ELSE NaN

RECURSIVE NatDigits(_)
NatDigits(n) == IF n = 0 THEN <<>> ELSE Append(NatDigits(n \div 10), n % 10)

\* a > b on two non-negative numbers; false when either is NaN.
RECURSIVE DigitsGreater(_, _)
DigitsGreater(a, b) ==
    IF Len(a) # Len(b) THEN Len(a) > Len(b)
    ELSE IF a = <<>> THEN FALSE
    ELSE IF a[1] # b[1] THEN a[1] > b[1]
    ELSE DigitsGreater(Tail(a), Tail(b))

GreaterThan(a, b) ==
    IF a.nan \/ b.nan THEN FALSE
    ELSE IF a.inf THEN ~b.inf
    ELSE IF b.inf THEN FALSE
    ELSE DigitsGreater(a.dig, b.dig)

\* v <= 0 for the values a transaction's value field holds in the model.
LessOrEqualZero(v) ==
    CASE v.k = "number" -> v.n <= 0
      [] v.k = "string" ->
            LET d == StringToNumber(v.s) IN ~d.nan /\ ~d.inf /\ d.dig = <<>>

-----------------------------------------------------------------------------
(* validateTransaction, lines 129-177 *)

V0_P2WPKH == <<"v", "0", "_", "p", "2", "w", "p", "k", "h">>
V1_P2TR == <<"v", "1", "_", "p", "2", "t", "r">>
BC1 == <<"b", "c", "1">>

ValidTypeMutant(t) == t.k = "string" /\ t.s = V0_P2WPKH

\* ['v0_p2wpkh', 'v1_p2tr'].includes(t)
ValidType(t) == t.k = "string" /\ t.s \in {V0_P2WPKH, V1_P2TR}

\* s.startsWith(prefix)
startsWith(s, prefix) ==
    Len(s) >= Len(prefix) /\ SubSeq(s, 1, Len(prefix)) = prefix

\* The three checks of lines 137-150 (and 155-168) on one prevout or output:
\* "false" is the early return false, "pass" falls through to the next
\* member, "TypeError" is startsWith called on something that has none.
checkScript(o) ==
    LET scriptpubkey_type == Or(Get(o, "scriptpubkey_type"), Str(<<>>))
        scriptpubkey_address == Or(Get(o, "scriptpubkey_address"), Str(<<>>))
        value == Or(Get(o, "value"), Num(0))
    IN  IF ~ValidType(scriptpubkey_type) THEN "false"
        ELSE IF scriptpubkey_address.k # "string" THEN "TypeError"
        ELSE IF ~startsWith(scriptpubkey_address.s, BC1) THEN "false"
        ELSE IF LessOrEqualZero(value) THEN "false"
        ELSE "pass"

\* One member of vin: line 136 reads input.prevout, which throws on a null
\* or undefined member.
checkInput(input) ==
    IF NoProps(input) THEN "TypeError"
    ELSE checkScript(Or(Get(input, "prevout"), Obj(<<>>)))

\* One member of vout: line 155 reads output.scriptpubkey_type.
checkOutput(output) ==
    IF NoProps(output) THEN "TypeError" ELSE checkScript(output)

\* The two for...of loops: the first member that does not pass decides.
RECURSIVE inputsLoop(_, _)
inputsLoop(items, j) ==
    IF j > Len(items) THEN "pass"
    ELSE IF checkInput(items[j]) # "pass" THEN checkInput(items[j])
    ELSE inputsLoop(items, j + 1)

RECURSIVE outputsLoop(_, _)
outputsLoop(items, j) ==
    IF j > Len(items) THEN "pass"
    ELSE IF checkOutput(items[j]) # "pass" THEN checkOutput(items[j])
    ELSE outputsLoop(items, j + 1)

\* The body of the try block, lines 131-171.
validateBody(transaction) ==
    IF NoProps(transaction) THEN "TypeError"
    ELSE LET vin == Or(Get(transaction, "vin"), Arr(<<>>))
             vout == Or(Get(transaction, "vout"), Arr(<<>>))
         IN  IF ~Iterable(vin) THEN "TypeError"
             ELSE IF inputsLoop(Items(vin), 1) # "pass" THEN inputsLoop(Items(vin), 1)
             ELSE IF ~Iterable(vout) THEN "TypeError"
             ELSE IF outputsLoop(Items(vout), 1) # "pass" THEN outputsLoop(Items(vout), 1)
             ELSE "true"

\* try { ... } catch (e) { return false }
validateTransaction(transaction) ==
    CASE validateBody(transaction) = "true" -> Return(TRUE)
      [] validateBody(transaction) = "false" -> Return(FALSE)
      [] validateBody(transaction) = "TypeError" -> Return(FALSE)

-----------------------------------------------------------------------------
(* The transactions validateTransaction is applied to *)

P2SH == <<"p", "2", "s", "h">>
BC1Q == <<"b", "c", "1", "q">>

\* An object with the given properties; a property given as Undefined is
\* missing from the object.
Record(fields) ==
    Obj([n \in {m \in DOMAIN fields : fields[m] # Undefined} |-> fields[n]])

Script(t, a, v) ==
    Record([scriptpubkey_type |-> t, scriptpubkey_address |-> a, value |-> v])
Input(prevout) == Record([prevout |-> prevout])
Tx(vin, vout) == Record([vin |-> vin, vout |-> vout])

TypeChoices == {Str(V0_P2WPKH), Str(V1_P2TR), Str(P2SH), Str(<<>>), Undefined}
AddressChoices ==
    {Str(BC1Q), Str(BC1), Str(<<"b", "c">>), Str(<<"1", "b", "c", "1">>),
     Undefined, Num(5)}
ValueChoices ==
    {Undefined, Str(<<"5">>), Str(<<"a">>)} \cup {Num(n) : n \in -1..MaxValue}

GoodType == Str(V0_P2WPKH)
GoodAddress == Str(BC1Q)
GoodValue == Num(1)
GoodScript == Script(GoodType, GoodAddress, GoodValue)

\* Every combination of the three fields, and the ones with one field off.
ScriptChoices ==
    {Script(t, a, v) : t \in TypeChoices, a \in AddressChoices, v \in ValueChoices}
FewScripts ==
    {Script(t, GoodAddress, GoodValue) : t \in TypeChoices}
    \cup {Script(GoodType, a, GoodValue) : a \in AddressChoices}
    \cup {Script(GoodType, GoodAddress, v) : v \in ValueChoices}

\* Members of vin: an input with a prevout, one without, and null.
InputChoices == {Input(o) : o \in ScriptChoices} \cup {Input(Undefined), Null}
FewInputs == {Input(o) : o \in FewScripts} \cup {Input(Undefined)}
OutputChoices == ScriptChoices \cup {Null}

\* A list of one member, and the lists of two with a good member beside it.
Pairs(few, good) ==
    {Arr(<<good, x>>) : x \in few} \cup {Arr(<<x, good>>) : x \in few}

\* What is not a list: a missing property, a number, a string.
NoLists == {Undefined, Num(5), Str(<<"a", "b">>)}

VinChoices == {Arr(<<>>)} \cup {Arr(<<x>>) : x \in InputChoices} \cup NoLists
FewVins == {Arr(<<>>), Undefined} \cup Pairs(FewInputs, Input(GoodScript))
VoutChoices == {Arr(<<>>)} \cup {Arr(<<x>>) : x \in OutputChoices} \cup NoLists
FewVouts == {Arr(<<>>), Undefined} \cup Pairs(FewScripts, GoodScript)

TxChoices ==
    {Tx(vin, vout) : vin \in VinChoices, vout \in FewVouts}
    \cup {Tx(vin, vout) : vin \in FewVins, vout \in VoutChoices}
    \cup {Null, Num(5)}

-----------------------------------------------------------------------------
(* The script's state when a single function is under call *)

Idle ==
    /\ transactions = <<>>
    /\ validTransactions = <<>>
    /\ idx = 0
    /\ totalFees = 0
    /\ coinbaseTransaction = Undefined
    /\ blockHeader = Undefined
    /\ blockHash = Undefined
    /\ attempts = <<>>
    /\ digests = <<>>
    /\ outputFile = <<>>

scriptVars == <<transactions, validTransactions, idx, totalFees,
                coinbaseTransaction, blockHeader, blockHash, attempts,
                digests, outputFile>>

InitValidate ==
    /\ pc = "call"
    /\ arg \in TxChoices
    /\ ret = Undefined
    /\ Idle

CallValidate ==
    /\ pc = "call"
    /\ ret' = validateTransaction(arg)
    /\ pc' = "returned"
    /\ UNCHANGED <<arg, scriptVars>>

NextValidate == CallValidate

SpecValidate == InitValidate /\ [][NextValidate]_vars

\* getMerkleRoot under call: lists of up to MaxLeaves transactions, the empty
\* list among them.  The transactions come from the mempool files of the
\* script, defined below.
MerkleLists(pool) == UNION {[1..n -> pool] : n \in 0..MaxLeaves}

-----------------------------------------------------------------------------
(* SHA-256, JSON.stringify and getMerkleRoot, lines 185-210 *)

\* JSON.stringify(x): the text of x, told apart from every other text.
JSONstringify(x) == [json |-> x]

\* A SHA-256 digest whose bytes are not computed: the digest of data, equal
\* to another digest only when the data are equal.
Sha256(data) == [sha256 |-> data]

\* Lines 186-190: the leaf hash of a transaction.
leafHash(transaction) == Sha256(JSONstringify(transaction))

\* Lines 201-203: the hash of the two digests' bytes, one after the other.
combinedHash(hash1, hash2) == Sha256([first |-> hash1, second |-> hash2])

hash2OfMutant(hashes, i) ==
    IF i + 1 <= Len(hashes) THEN hashes[i + 1] ELSE hashes[1]

\* Line 200: hashes[i + 1] || hash1 (a digest is never falsy), with i
\* counted from 1.
hash2Of(hashes, i) ==
    IF i + 1 <= Len(hashes) THEN hashes[i + 1] ELSE hashes[i]

\* Lines 197-204: the for loop that fills newHashes.
RECURSIVE pairLoop(_, _, _)
pairLoop(hashes, i, newHashes) ==
    IF i > Len(hashes) THEN newHashes
    ELSE pairLoop(hashes, i + 2,
                  Append(newHashes, combinedHash(hashes[i], hash2Of(hashes, i))))

\* Lines 192-207.  frames counts the calls on the stack: the engine throws
\* a RangeError when the stack is full.
RECURSIVE merkleRoot(_, _)
merkleRoot(hashes, frames) ==
    IF frames > MaxCallStack THEN Throw("RangeError")
    ELSE IF Len(hashes) = 1 THEN Return(hashes[1])
    ELSE merkleRoot(pairLoop(hashes, 1, <<>>), frames + 1)

getMerkleRoot(txs) ==
    merkleRoot([j \in 1..Len(txs) |-> leafHash(txs[j])], 1)

-----------------------------------------------------------------------------
(* getBlockHash, lines 224-236, and the loop condition of line 109 *)

\* n.toString() for n >= 0
NumberToString(n) ==
    IF n = 0 THEN <<"0">>
    ELSE [j \in 1..Len(NatDigits(n)) |-> DecDigits[NatDigits(n)[j] + 1]]

\* Buffer.from(s, "hex") for a string of hex digits: one byte for every two
\* characters, a last odd character is dropped (Node.js 8 and later; every
\* string decoded here is made of hex digits only).
HexDecode(s) ==
    [j \in 1..(Len(s) \div 2) |-> 16 * HexVal(s[2 * j - 1]) + HexVal(s[2 * j])]

\* Buffer.from(d, "hex") for a digest whose bytes are not computed.
DigestBytes(d) == <<d>>

ZeroHash == [j \in 1..64 |-> "0"]
Bits == <<"0", "0", "0", "0", "f", "f", "f", "f">> \o [j \in 1..56 |-> "0"]

\* Line 231: Buffer.from(blockHeader.nonce.toString(), "hex")
nonceBytes(nonce) == HexDecode(NumberToString(nonce))

\* Lines 225-232: the bytes that are hashed.
blockHeaderBuffer(h) ==
    HexDecode(NumberToString(h.version))
    \o HexDecode(h.prevBlockHash)
    \o DigestBytes(h.merkleRoot)
    \o HexDecode(NumberToString(h.timestamp))
    \o HexDecode(h.bits)
    \o nonceBytes(h.nonce)

\* The numeric literal of line 109, 0x0000ffff0...0 with 65 hex digits:
\* 65535 * 16^57, in decimal.
TargetLiteral ==
    Finite(
    <<2, 8, 2, 6, 9, 1, 2, 1, 6, 7, 7, 3, 0, 7, 4, 7, 4, 8, 6, 3, 0, 9, 6,
      0, 4, 5, 3, 3, 9, 6, 4, 5, 3, 0, 3, 9, 3, 9, 1, 4, 8, 9, 6, 4, 1, 5,
      5, 6, 9, 9, 1, 4, 2, 6, 8, 0, 7, 8, 6, 0, 0, 1, 5, 6, 2, 9, 1, 7, 9,
      2, 8, 9, 6, 0>>)

\* Line 109: blockHash > 0x0000ffff0...0.  A string against a number: the
\* string is coerced with ToNumber.
loopAgain(hash) == GreaterThan(StringToNumber(hash), TargetLiteral)

\* The 64 hex digits double SHA-256 may give for a buffer.
Pad(head, n, c, tail) == head \o [j \in 1..n |-> c] \o tail
DigestChoices ==
    {Pad(<<>>, 63, "0", <<"1">>),
     Pad(<<>>, 64, "f", <<>>),
     Pad(<<"1", "e">>, 62, "9", <<>>),
     Pad(<<"2", "e">>, 60, "0", <<"7", "3">>),
     Pad(<<"0", "0", "0", "0", "1", "e">>, 55, "0", <<"1", "0", "0">>)}

-----------------------------------------------------------------------------
(* The script, lines 5-120 *)

COINBASE_SCRIPTPUBKEY ==
    <<"7", "6", "a", "9", "1", "4", "6", "0", "8", "5", "3", "1", "2", "a",
      "9", "c", "5", "0", "0", "f", "f", "9", "c", "c", "3", "5", "b", "5",
      "7", "1", "b", "0", "a", "1", "e", "5", "e", "f", "b", "7", "f", "b",
      "9", "f", "1", "6", "8", "8", "a", "c">>
COINBASE_ASM ==
    <<"O", "P", "_", "D", "U", "P", " ", "O", "P", "_", "H", "A", "S", "H",
      "1", "6", "0", " ", "O", "P", "_", "P", "U", "S", "H", "B", "Y", "T",
      "E", "S", "_", "2", "0", " ", "6", "0", "8", "5", "3", "1", "2", "a",
      "9", "c", "5", "0", "0", "f", "f", "9", "c", "c", "3", "5", "b", "5",
      "7", "1", "b", "0", "a", "1", "e", "5", "e", "f", "b", "7", "f", "b",
      "9", "f", "1", "6", " ", "O", "P", "_", "E", "Q", "U", "A", "L", "V",
      "E", "R", "I", "F", "Y", " ", "O", "P", "_", "C", "H", "E", "C", "K",
      "S", "I", "G">>
COINBASE_ADDRESS ==
    <<"1", "9", "o", "M", "R", "m", "C", "W", "M", "Y", "u", "h", "n", "P",
      "5", "W", "6", "1", "A", "B", "r", "j", "j", "x", "H", "c", "6", "R",
      "p", "h", "Z", "h", "1", "1">>
P2PKH == <<"p", "2", "p", "k", "h">>

BaseSubsidy == 2500000

coinbaseValueMutant(fees) == BaseSubsidy + (IF fees < 0 THEN 0 ELSE fees)

\* Line 67: 2500000 + totalFees
coinbaseValue(fees) == BaseSubsidy + fees

\* Lines 61-79
buildCoinbase(fees) ==
    Obj([version |-> Num(1),
         locktime |-> Num(0),
         vin |-> Arr(<<Obj([prevout |->
                     Obj([txid |-> Str(ZeroHash),
                          value |-> Num(coinbaseValue(fees))])])>>),
         vout |-> Arr(<<Obj([scriptpubkey |-> Str(COINBASE_SCRIPTPUBKEY),
                             scriptpubkey_asm |-> Str(COINBASE_ASM),
                             scriptpubkey_type |-> Str(P2PKH),
                             scriptpubkey_address |-> Str(COINBASE_ADDRESS),
                             value |-> Num(0)])>>)])

\* Lines 34-36 and 37-39: the two inner forEach of the fee loop, over the
\* numbers a validated transaction holds.
RECURSIVE addInputs(_, _, _)
addInputs(fees, vin, j) ==
    IF j > Len(vin) THEN fees
    ELSE addInputs(fees + Get(Get(vin[j], "prevout"), "value").n, vin, j + 1)

RECURSIVE subtractOutputs(_, _, _)
subtractOutputs(fees, vout, j) ==
    IF j > Len(vout) THEN fees
    ELSE subtractOutputs(fees - Get(vout[j], "value").n, vout, j + 1)

\* Line 95: the list the Merkle root is computed over.
merkleList(valid, coinbase) == valid \o <<coinbase>>

\* Line 245
getBlockHeaderString(h) ==
    [header |-> <<NumberToString(h.version), h.prevBlockHash, h.merkleRoot,
                  NumberToString(h.timestamp), h.bits, NumberToString(h.nonce)>>]

\* Line 255
getTransactionString(transaction) == JSONstringify(transaction)

writeFileSyncMutant(file, line) == Append(file, line)

\* fs.writeFileSync(file, line + "\n") and fs.appendFileSync(file, line + "\n")
\* on a file kept as the sequence of its lines.
writeFileSync(file, line) == <<line>>
appendFileSync(file, line) == Append(file, line)

\* The mempool files the model draws from: a transaction with two inputs and
\* a fee of 4, one that pays out more than it takes in, one with a p2sh
\* output, and the record {}.
PoolPaying ==
    Tx(Arr(<<Input(Script(Str(V0_P2WPKH), Str(BC1Q), Num(5))),
             Input(Script(Str(V1_P2TR), Str(BC1Q), Num(2)))>>),
       Arr(<<Script(Str(V0_P2WPKH), Str(BC1Q), Num(3))>>))
PoolLosing ==
    Tx(Arr(<<Input(Script(Str(V1_P2TR), Str(BC1Q), Num(1)))>>),
       Arr(<<Script(Str(V1_P2TR), Str(BC1Q), Num(4))>>))
PoolP2sh ==
    Tx(Arr(<<Input(Script(Str(V0_P2WPKH), Str(BC1Q), Num(5)))>>),
       Arr(<<Script(Str(P2SH), Str(BC1Q), Num(1))>>))
PoolEmptyRecord == Tx(Undefined, Undefined)

TxPool == {PoolPaying, PoolLosing, PoolP2sh, PoolEmptyRecord}
Mempools == UNION {[1..n -> TxPool] : n \in 0..MaxTx}

\* What output.txt holds before the run: nothing, or a line of an older run.
StaleLine == JSONstringify(PoolP2sh)
OldFiles == {<<>>, <<StaleLine>>}

\* Math.floor(Date.now() / 1000)
Timestamps == {1712345678, 1712345679}

callVars == <<arg, ret>>

\* Lines 5-11 have run: the mempool is loaded.
Init ==
    /\ transactions \in Mempools
    /\ pc = IF transactions = <<>> THEN "coinbase" ELSE "validate"
    /\ validTransactions = <<>>
    /\ idx = 1
    /\ totalFees = 0
    /\ coinbaseTransaction = Undefined
    /\ blockHeader = Undefined
    /\ blockHash = Undefined
    /\ attempts = <<>>
    /\ digests = <<>>
    /\ outputFile \in OldFiles
    /\ arg = Undefined
    /\ ret = Undefined

\* Lines 20-24: one turn of the forEach over transactions.
ValidateStep ==
    /\ pc = "validate"
    /\ LET keep == validateTransaction(transactions[idx]).v
           valid == IF keep THEN Append(validTransactions, transactions[idx])
                    ELSE validTransactions
       IN  /\ validTransactions' = valid
           /\ IF idx < Len(transactions)
              THEN idx' = idx + 1 /\ pc' = "validate"
              ELSE idx' = 1 /\ pc' = IF valid = <<>> THEN "coinbase" ELSE "fees"
    /\ UNCHANGED <<transactions, totalFees, coinbaseTransaction, blockHeader,
                   blockHash, attempts, digests, outputFile, callVars>>

\* Lines 33-40: one turn of the forEach over validTransactions.  forEach of
\* something that is no array throws and the script ends there.
FeeStep ==
    /\ pc = "fees"
    /\ LET vin == Get(validTransactions[idx], "vin")
           vout == Get(validTransactions[idx], "vout")
       IN  IF vin.k # "array"
           THEN pc' = "aborted" /\ UNCHANGED <<totalFees, idx>>
           ELSE IF vout.k # "array"
           THEN /\ pc' = "aborted"
                /\ totalFees' = addInputs(totalFees, vin.a, 1)
                /\ UNCHANGED idx
           ELSE /\ totalFees' =
                      subtractOutputs(addInputs(totalFees, vin.a, 1), vout.a, 1)
                /\ IF idx < Len(validTransactions)
                   THEN idx' = idx + 1 /\ pc' = "fees"
                   ELSE idx' = 1 /\ pc' = "coinbase"
    /\ UNCHANGED <<transactions, validTransactions, coinbaseTransaction,
                   blockHeader, blockHash, attempts, digests, outputFile, callVars>>

\* Lines 61-79
BuildCoinbase ==
    /\ pc = "coinbase"
    /\ coinbaseTransaction' = buildCoinbase(totalFees)
    /\ pc' = "header"
    /\ UNCHANGED <<transactions, validTransactions, idx, totalFees, blockHeader,
                   blockHash, attempts, digests, outputFile, callVars>>

\* Lines 92-99
BuildHeader ==
    /\ pc = "header"
    /\ \E now \in Timestamps :
         LET root == getMerkleRoot(merkleList(validTransactions, coinbaseTransaction))
         IN  IF root.k = "throw"
             THEN pc' = "aborted" /\ UNCHANGED blockHeader
             ELSE /\ blockHeader' = [version |-> 1,
                                     prevBlockHash |-> ZeroHash,
                                     merkleRoot |-> root.v,
                                     timestamp |-> now,
                                     bits |-> Bits,
                                     nonce |-> 0]
                  /\ pc' = "mine"
    /\ UNCHANGED <<transactions, validTransactions, idx, totalFees,
                   coinbaseTransaction, blockHash, attempts, digests,
                   outputFile, callVars>>

\* Lines 106-109: one turn of the do/while.  getBlockHash gives the same
\* digest for the same bytes and any digest for bytes not hashed before.
MineStep ==
    /\ pc = "mine"
    /\ blockHeader.nonce <= MaxNonce
    /\ LET buffer == blockHeaderBuffer(blockHeader)
       IN  \E d \in DigestChoices :
             /\ buffer \in DOMAIN digests => d = digests[buffer]
             /\ digests' = IF buffer \in DOMAIN digests THEN digests
                           ELSE (buffer :> d) @@ digests
             /\ blockHash' = Str(d)
             /\ attempts' = Append(attempts, [nonce |-> blockHeader.nonce, hash |-> d])
             /\ blockHeader' = [blockHeader EXCEPT !.nonce = @ + 1]
             /\ pc' = IF loopAgain(d) THEN "mine" ELSE "writeHeader"
    /\ UNCHANGED <<transactions, validTransactions, idx, totalFees,
                   coinbaseTransaction, outputFile, callVars>>

\* Lines 113-114
WriteHeader ==
    /\ pc = "writeHeader"
    /\ outputFile' = writeFileSync(outputFile, getBlockHeaderString(blockHeader))
    /\ pc' = "writeCoinbase"
    /\ UNCHANGED <<transactions, validTransactions, idx, totalFees,
                   coinbaseTransaction, blockHeader, blockHash, attempts,
                   digests, callVars>>

\* Lines 115-116
AppendCoinbase ==
    /\ pc = "writeCoinbase"
    /\ outputFile' = appendFileSync(outputFile, getTransactionString(coinbaseTransaction))
    /\ pc' = IF validTransactions = <<>> THEN "done" ELSE "writeTx"
    /\ idx' = 1
    /\ UNCHANGED <<transactions, validTransactions, totalFees,
                   coinbaseTransaction, blockHeader, blockHash, attempts,
                   digests, callVars>>

\* Lines 117-120: one turn of the forEach over validTransactions.
AppendTransaction ==
    /\ pc = "writeTx"
    /\ outputFile' = appendFileSync(outputFile, getTransactionString(validTransactions[idx]))
    /\ IF idx < Len(validTransactions)
       THEN idx' = idx + 1 /\ pc' = "writeTx"
       ELSE idx' = idx /\ pc' = "done"
    /\ UNCHANGED <<transactions, validTransactions, totalFees,
                   coinbaseTransaction, blockHeader, blockHash, attempts,
                   digests, callVars>>

Next ==
    \/ ValidateStep
    \/ FeeStep
    \/ BuildCoinbase
    \/ BuildHeader
    \/ MineStep
    \/ WriteHeader
    \/ AppendCoinbase
    \/ AppendTransaction

Spec == Init /\ [][Next]_vars

-----------------------------------------------------------------------------
(* getMerkleRoot under call *)

InitMerkle ==
    /\ pc = "call"
    /\ arg \in MerkleLists({PoolPaying, PoolLosing, PoolP2sh})
    /\ ret = Undefined
    /\ Idle

CallMerkle ==
    /\ pc = "call"
    /\ ret' = getMerkleRoot(arg)
    /\ pc' = "returned"
    /\ UNCHANGED <<arg, scriptVars>>

NextMerkle == CallMerkle

SpecMerkle == InitMerkle /\ [][NextMerkle]_vars

-----------------------------------------------------------------------------
(* Properties of validateTransaction, stated on the record itself *)

Has(o, name) == o.k = "object" /\ name \in DOMAIN o.f

\* The three checks, read off the record: a missing field fails its check.
TypeAccepted(o) ==
    Has(o, "scriptpubkey_type")
    /\ o.f.scriptpubkey_type \in {Str(V0_P2WPKH), Str(V1_P2TR)}
AddressAccepted(o) ==
    /\ Has(o, "scriptpubkey_address")
    /\ o.f.scriptpubkey_address.k = "string"
    /\ LET s == o.f.scriptpubkey_address.s
       IN  Len(s) >= 3 /\ s[1] = "b" /\ s[2] = "c" /\ s[3] = "1"
ValueAccepted(o) ==
    Has(o, "value") /\ o.f.value.k = "number" /\ o.f.value.n > 0
PassesAll(o) == TypeAccepted(o) /\ AddressAccepted(o) /\ ValueAccepted(o)

\* The members of a side; a side that is missing has none.
Members(T, side) == IF Has(T, side) THEN T.f[side].a ELSE <<>>

\* A record of the data model: vin and vout are lists (or missing), every
\* member is an object, and a field that is there has the type of its kind.
TypedField(o, name, kind) == Has(o, name) => o.f[name].k = kind
TypedScript(o) ==
    /\ o.k = "object"
    /\ TypedField(o, "scriptpubkey_type", "string")
    /\ TypedField(o, "scriptpubkey_address", "string")
    /\ TypedField(o, "value", "number")
TypedInput(x) == x.k = "object" /\ (Has(x, "prevout") => TypedScript(x.f.prevout))
TypedTx(T) ==
    /\ T.k = "object"
    /\ TypedField(T, "vin", "array")
    /\ TypedField(T, "vout", "array")
    /\ \A j \in 1..Len(Members(T, "vin")) : TypedInput(Members(T, "vin")[j])
    /\ \A j \in 1..Len(Members(T, "vout")) : TypedScript(Members(T, "vout")[j])

\* A record with every field of the data model in place.
FullScript(o) ==
    /\ TypedScript(o)
    /\ Has(o, "scriptpubkey_type")
    /\ Has(o, "scriptpubkey_address")
    /\ Has(o, "value")
WellFormed(T) ==
    /\ TypedTx(T)
    /\ Has(T, "vin")
    /\ Has(T, "vout")
    /\ \A j \in 1..Len(Members(T, "vin")) :
          LET x == Members(T, "vin")[j]
          IN  Has(x, "prevout") /\ FullScript(x.f.prevout)
    /\ \A j \in 1..Len(Members(T, "vout")) : FullScript(Members(T, "vout")[j])

\* C1: for every transaction of the data model, validateTransaction returns
\* true exactly when every input's prevout and every output has an accepted
\* scriptpubkey_type, an address starting with bc1 and a value above 0 (a
\* missing field fails, an empty side passes), and false otherwise.
C1_ValidateIffAllPass ==
    (pc = "returned" /\ TypedTx(arg)) =>
        ret = Return(
            /\ \A j \in 1..Len(Members(arg, "vin")) :
                  PassesAll(Get(Members(arg, "vin")[j], "prevout"))
            /\ \A j \in 1..Len(Members(arg, "vout")) :
                  PassesAll(Members(arg, "vout")[j]))

\* C1 witness: a transaction with two inputs and one output, a v1_p2tr one
\* among them, was accepted.
C1_Witness ==
    /\ pc = "returned"
    /\ TypedTx(arg)
    /\ Len(Members(arg, "vin")) = 2
    /\ Len(Members(arg, "vout")) = 1
    /\ Get(Members(arg, "vin")[2], "prevout") = Script(Str(V1_P2TR), Str(BC1Q), Num(1))
    /\ ret = Return(TRUE)

\* C2: validateTransaction never raises, and a record with a malformed or
\* missing field is rejected: the result is false, not an error or true.
C2_MalformedIsRejected ==
    pc = "returned" =>
        /\ ret.k = "return"
        /\ ret.v \in BOOLEAN
        /\ (~WellFormed(arg) => ret.v = FALSE)

-----------------------------------------------------------------------------
(* Properties of the fee total and the coinbase transaction *)

RECURSIVE SeqSum(_)
SeqSum(q) == IF q = <<>> THEN 0 ELSE q[1] + SeqSum(Tail(q))

\* The sum of every input prevout.value, and of every output value, over a
\* list of transactions.
InputSum(txs) ==
    SeqSum([t \in 1..Len(txs) |->
              SeqSum([j \in 1..Len(Members(txs[t], "vin")) |->
                        Members(txs[t], "vin")[j].f.prevout.f.value.n])])
OutputSum(txs) ==
    SeqSum([t \in 1..Len(txs) |->
              SeqSum([j \in 1..Len(Members(txs[t], "vout")) |->
                        Members(txs[t], "vout")[j].f.value.n])])

FeesDone ==
    {"coinbase", "header", "mine", "writeHeader", "writeCoinbase", "writeTx", "done"}

\* C3: once the fee loop is over, totalFees is the sum of all input values
\* minus the sum of all output values of the validated transactions (0 for
\* none, the sum of the parts after each transaction, negative when the
\* outputs exceed the inputs), and the coinbase transaction has one input
\* with prevout.value = 2500000 + totalFees and one output with value 0.
C3_FeesAndCoinbase ==
    /\ pc = "fees" =>
          totalFees = InputSum(SubSeq(validTransactions, 1, idx - 1))
                      - OutputSum(SubSeq(validTransactions, 1, idx - 1))
    /\ pc \in FeesDone =>
          totalFees = InputSum(validTransactions) - OutputSum(validTransactions)
    /\ (pc \in FeesDone /\ validTransactions = <<>>) => totalFees = 0
    /\ coinbaseTransaction # Undefined =>
          /\ Len(coinbaseTransaction.f.vin.a) = 1
          /\ coinbaseTransaction.f.vin.a[1].f.prevout.f.value = Num(2500000 + totalFees)
          /\ Len(coinbaseTransaction.f.vout.a) = 1
          /\ coinbaseTransaction.f.vout.a[1].f.value = Num(0)

\* C3 witness: a coinbase transaction built over two validated transactions
\* whose fees are negative.
C3_Witness ==
    /\ pc = "header"
    /\ Len(validTransactions) = 2
    /\ totalFees < 0
    /\ coinbaseTransaction # Undefined

-----------------------------------------------------------------------------
(* Properties of the mining loop *)

HexVals(s) == [j \in 1..Len(s) |-> HexVal(s[j])]

\* a > b for two strings of 64 hex digits read as 256-bit unsigned integers.
HexGreater(a, b) == DigitsGreater(HexVals(a), HexVals(b))

Mined == {"writeHeader", "writeCoinbase", "writeTx", "done"}

\* C4: when the mining loop has exited, the last hash it computed, read as a
\* 256-bit unsigned integer, is at most the target of the header's bits.
C4_ExitHashMeetsTarget ==
    pc \in Mined => ~HexGreater(blockHash.s, blockHeader.bits)

\* The bytes hashed for the header with a given nonce.
BufferAt(nonce) == blockHeaderBuffer([blockHeader EXCEPT !.nonce = nonce])

\* C5: the nonces are tried in increasing order from 0, and the nonce of
\* the header in the report is the first whose hash meets the target: the
\* hash of every smaller nonce is above the target and the hash of the
\* header with the reported nonce is not.
C5_ReportedNonceIsFirst ==
    /\ \A j \in 1..Len(attempts) : attempts[j].nonce = j - 1
    /\ pc = "done" =>
          /\ outputFile[1] = getBlockHeaderString(blockHeader)
          /\ \A j \in 1..Len(attempts) :
                attempts[j].nonce < blockHeader.nonce =>
                    HexGreater(attempts[j].hash, blockHeader.bits)
          /\ BufferAt(blockHeader.nonce) \in DOMAIN digests
          /\ ~HexGreater(digests[BufferAt(blockHeader.nonce)], blockHeader.bits)

\* C9: two different nonces tried in one run give different bytes to hash.
C9_NoncesHashDifferentBytes ==
    \A a, b \in 1..Len(attempts) :
        attempts[a].nonce # attempts[b].nonce =>
            BufferAt(attempts[a].nonce) # BufferAt(attempts[b].nonce)

-----------------------------------------------------------------------------
(* Properties of the report *)

Accepted(t) == validateTransaction(t) = Return(TRUE)

\* The header line: the six fields in their order.
HeaderLine ==
    [header |-> <<NumberToString(blockHeader.version), blockHeader.prevBlockHash,
                  blockHeader.merkleRoot, NumberToString(blockHeader.timestamp),
                  blockHeader.bits, NumberToString(blockHeader.nonce)>>]

TxLines(txs) == [j \in 1..Len(txs) |-> [json |-> txs[j]]]

NotWritten == {"validate", "fees", "coinbase", "header", "mine", "aborted"}

\* C8: nothing is written before mining has finished; then the file is
\* overwritten with the header line, the coinbase line is appended, and one
\* line per validated transaction follows in load order: with N validated
\* transactions the finished file is the header line and N + 1 transaction
\* lines, none of a rejected transaction.
C8_ReportOrder ==
    LET valid == SelectSeq(transactions, Accepted)
        head == <<HeaderLine, [json |-> coinbaseTransaction]>>
    IN  /\ pc \in NotWritten => outputFile \in OldFiles
        /\ pc = "writeCoinbase" => outputFile = <<HeaderLine>>
        /\ pc = "writeTx" =>
              outputFile = head \o TxLines(SubSeq(valid, 1, idx - 1))
        /\ pc = "done" =>
              /\ outputFile = head \o TxLines(valid)
              /\ Len(outputFile) = 1 + (Len(valid) + 1)
              /\ \A j \in 3..Len(outputFile) : Accepted(outputFile[j].json)

\* C8 witness: a finished report of a mempool of three with a rejected
\* transaction between two different validated ones.
C8_Witness ==
    /\ pc = "done"
    /\ Len(transactions) = 3
    /\ ~Accepted(transactions[2])
    /\ transactions[1] # transactions[3]
    /\ Len(outputFile) = 4

\* The transactions of the report's lines, in their order.
ReportedTransactions ==
    [j \in 1..(Len(outputFile) - 1) |-> outputFile[j + 1].json]

\* C10: the list the header's merkleRoot commits to is the list of the
\* report's transaction lines: the coinbase transaction, then the validated
\* transactions in their order.
C10_RootCommitsToReport ==
    pc = "done" =>
        /\ ReportedTransactions = <<coinbaseTransaction>> \o validTransactions
        /\ Return(blockHeader.merkleRoot) = getMerkleRoot(ReportedTransactions)

-----------------------------------------------------------------------------
(* Properties of getMerkleRoot *)

\* One level of the reduction: adjacent digests paired left to right, the
\* last one with itself when the count is odd.
Level(hs) ==
    [j \in 1..((Len(hs) + 1) \div 2) |->
        combinedHash(hs[2 * j - 1], IF 2 * j <= Len(hs) THEN hs[2 * j] ELSE hs[2 * j - 1])]

RECURSIVE Reduce(_)
Reduce(hs) == IF Len(hs) = 1 THEN hs[1] ELSE Reduce(Level(hs))

Leaves(txs) == [j \in 1..Len(txs) |-> Sha256([json |-> txs[j]])]

\* C6: for a non-empty list getMerkleRoot returns (it terminates) the one
\* digest left after reducing the leaf hashes level by level; one leaf is
\* returned unchanged, and [a, b, c] gives combine(combine(a, b),
\* combine(c, c)).
C6_MerkleReduction ==
    (pc = "returned" /\ Len(arg) >= 1) =>
        LET h == Leaves(arg)
        IN  /\ ret = Return(Reduce(h))
            /\ Len(arg) = 1 => ret.v = h[1]
            /\ Len(arg) = 3 =>
                  ret.v = combinedHash(combinedHash(h[1], h[2]), combinedHash(h[3], h[3]))

\* C6 witness: getMerkleRoot has returned for three different transactions.
C6_Witness ==
    /\ pc = "returned"
    /\ Len(arg) = 3
    /\ Cardinality({arg[1], arg[2], arg[3]}) = 3
    /\ ret.k = "return"

\* C7: for zero transactions getMerkleRoot throws EmptyTransactionSet.
C7_EmptyListIsRefused ==
    (pc = "returned" /\ arg = <<>>) => ret = Throw("EmptyTransactionSet")

-----------------------------------------------------------------------------
(* Properties of the stages after validation *)

\* A record the fee loop of lines 33-40 can go through: vin and vout are
\* lists and every input has a prevout with a number as its value.
Feeable(T) ==
    /\ Has(T, "vin") /\ T.f.vin.k = "array"
    /\ Has(T, "vout") /\ T.f.vout.k = "array"
    /\ \A j \in 1..Len(T.f.vin.a) :
          LET x == T.f.vin.a[j]
          IN  /\ Has(x, "prevout")
              /\ Has(x.f.prevout, "value")
              /\ x.f.prevout.f.value.k = "number"

\* The validated transactions the fee loop has gone through.
FeesTaken ==
    IF pc = "fees" THEN SubSeq(validTransactions, 1, idx - 1)
    ELSE IF pc \in FeesDone THEN validTransactions
    ELSE <<>>

\* C11: every transaction validateTransaction accepted is taken through the
\* fee loop without an error (its vin and vout are lists and every input has
\* a prevout with a value), so the run never ends between validation and
\* mining on a record the validator let through.
C11_AcceptedIsProcessed ==
    /\ pc # "aborted"
    /\ \A j \in 1..Len(FeesTaken) : Feeable(FeesTaken[j])

=============================================================================
